---- MODULE Spec2Model ----
(***************************************************************************)
(* Authentication / authorization pipeline of the gms backend:             *)
(*   AuthService.generateTokenPayload, signup, login  (auth.service.ts,    *)
(*     in its two copies: gms-be/src/auth and unnamed/part_000),           *)
(*   JwtStrategy.validate                             (jwt.strategy.ts),   *)
(*   RolesGuard.canActivate                           (role-guard.ts),     *)
(*   OrganizationService.create, deleteOffice   (organization.service.ts), *)
(* and the client's user store, userSlice            (unnamed/part_003).   *)
(* The persisted state is the part of the Prisma schema these read and     *)
(* write: user rows with their role bindings and first userOffice row,     *)
(* organization rows with their admin user and feature rows, office rows.  *)
(***************************************************************************)
EXTENDS Integers, Sequences, FiniteSets, TLC

\* ------------------------------------------------------------------ bounds
MaxUsers == 1          \* user ids ever allocated
MaxOrgs == 1           \* organization ids ever allocated
MaxCalls == 2          \* OrganizationService.create calls that can run at once
MaxOffices == 2        \* office ids ever allocated

UserIds == 1..MaxUsers
OrgIds == 1..MaxOrgs
Callers == 1..MaxCalls
OfficeIds == 1..MaxOffices

\* `undefined` for an id-valued field (organizationId, sub, userId)
Undefined == 0

\* role names: the two the code names, 'user' is the default of a user
\* without bindings
RoleNames == {"superAdmin", "organizationAdmin"}
DefaultRole == "user"

\* the role-binding lists a user can hold (userRoles, in fetch order)
RoleBindingLists ==
  { <<>>, <<"superAdmin">>, <<"organizationAdmin">>,
    <<"organizationAdmin", "superAdmin">>, <<"superAdmin", "organizationAdmin">> }

\* feature strings a feature row can carry; "" is the falsy one
FeatureStrings == {"", "payroll"}
\* the static catalog imported from common/constants/features
ALL_FEATURES == {"payroll", "attendance"}

\* what a login dto can carry; every user registers with the first
Passwords == {"secret", "guess"}
RegisteredPassword == "secret"
Impls == {"gms-be", "part_000"}

\* ------------------------------------------------------------------- state
VARIABLES
  user,          \* user table: id -> row
  organization,  \* organization table: id -> row
  token,         \* the credential the client holds: the last one issued
  call,          \* the login/signup call in flight, between its two awaits
  res,           \* outcome of the operation that completed last
  fault,         \* the query of the persistence layer that rejects for now
  office,        \* office table: id -> row
  creates,       \* the OrganizationService.create calls: caller -> its position
  schema,        \* the unique indexes of the user table the code does not show
  state          \* the client's user store (userSlice): the redux state

vars == <<user, organization, token, call, res, fault, office, creates, schema, state>>

NoUser ==
  [status |-> "never", email |-> Undefined, userName |-> Undefined, password |-> "",
   userRoles |-> <<>>, userOffice |-> Undefined]
DeletedUser ==
  [status |-> "deleted", email |-> Undefined, userName |-> Undefined, password |-> "",
   userRoles |-> <<>>, userOffice |-> Undefined]
NoOrganization == [exists |-> FALSE, email |-> Undefined, userId |-> Undefined, features |-> {}]

NoOffice == [status |-> "never", organizationId |-> Undefined]
DeletedOffice == [status |-> "deleted", organizationId |-> Undefined]
NoCreate == [pc |-> "idle"]

NoToken == [signed |-> [sub |-> Undefined]]
NoCall == [op |-> "none"]
Idle == [op |-> "none"]

\* the addresses and user names a dto can carry
Address(i) == 100 + i
Handle(i) == 200 + i
Emails == { Address(i) : i \in UserIds }

\* user.email of the row with this id
EmailOf(id) == user[id].email

Live(id) == id \in DOMAIN user /\ user[id].status = "live"

\* an operation's outcome: a returned value or a thrown exception
Ok(v) == [kind |-> "ok", value |-> v]
Throw(k, m) == [kind |-> k, message |-> m]

\* the queries the resolution paths await, each of which can reject while the
\* database is unreachable
NoFault == "none"
Faults == {"user.findUnique", "organization.findFirst"}
\* what a rejected Prisma query throws
QueryRejected == Throw("PrismaClientKnownRequestError", "Can't reach database server")

\* ------------------------------------------------- persistence-layer reads
\* user.userRoles[0]?.role.roleName || 'user'
FirstRole(row) == IF Len(row.userRoles) > 0 THEN row.userRoles[1] ELSE DefaultRole

\* user.userRoles.some(ur => ur.role.roleName === 'superAdmin')
SomeSuperAdmin(row) == \E i \in 1..Len(row.userRoles) : row.userRoles[i] = "superAdmin"

\* prisma.organization.findFirst({ where: { userId } }): the id of the first
\* organization whose admin user is userId, Undefined when there is none
findFirstOrganization(userId) ==
  LET owned == { o \in DOMAIN organization :
                   organization[o].exists /\ organization[o].userId = userId }
  IN IF owned = {} THEN Undefined ELSE CHOOSE o \in owned : \A q \in owned : o <= q

\* organization.features.map(f => f.feature)
FeatureStringsOf(o) == organization[o].features

\* .filter(Boolean): drops the falsy (empty) strings
FilterBoolean(fs) == { f \in fs : f # "" }

\* ------------------------------------- AuthService.generateTokenPayload
\* the try block of the gms-be copy: the organization is user.userOffice[0]
generateTokenPayloadTry(userId) ==
  IF fault = "user.findUnique" THEN QueryRejected
  ELSE IF ~Live(userId) THEN Throw("NotFoundException", "User not found")
  ELSE
    LET row == user[userId]
        role == FirstRole(row)
        isSuperAdmin == role = "superAdmin"
        org == row.userOffice
        organizationId == IF isSuperAdmin THEN Undefined ELSE org
        features == IF isSuperAdmin THEN ALL_FEATURES
                    ELSE IF org # Undefined THEN FilterBoolean(FeatureStringsOf(org))
                    ELSE {}
    IN Ok([sub |-> userId, email |-> EmailOf(userId), role |-> role,
           organizationId |-> organizationId, features |-> features,
           isSuperAdmin |-> isSuperAdmin])

\* the try block of the part_000 copy: the organization is the one the user
\* administers (organization.userId), its feature strings are not filtered
\* (the organization query awaited without its own try/catch)
generateTokenPayloadTry_part000_NoInnerCatch(userId) ==
  IF fault = "user.findUnique" THEN QueryRejected
  ELSE IF ~Live(userId) THEN Throw("NotFoundException", "User not found")
  ELSE
    LET row == user[userId]
        role == FirstRole(row)
        isSuperAdmin == role = "superAdmin"
        org == findFirstOrganization(userId)
        organizationId == IF isSuperAdmin THEN Undefined ELSE org
        features == IF isSuperAdmin THEN ALL_FEATURES
                    ELSE IF org # Undefined THEN FeatureStringsOf(org)
                    ELSE {}
    IN IF ~isSuperAdmin /\ fault = "organization.findFirst" THEN QueryRejected
       ELSE Ok([sub |-> userId, email |-> EmailOf(userId), role |-> role,
                organizationId |-> organizationId, features |-> features,
                isSuperAdmin |-> isSuperAdmin])

generateTokenPayloadTry_part000(userId) ==
  IF fault = "user.findUnique" THEN QueryRejected
  ELSE IF ~Live(userId) THEN Throw("NotFoundException", "User not found")
  ELSE
    LET row == user[userId]
        role == FirstRole(row)
        isSuperAdmin == role = "superAdmin"
        \* the inner try: a rejected organization query is logged and leaves
        \* organizationId undefined and features []
        orgQueryFailed == ~isSuperAdmin /\ fault = "organization.findFirst"
        org == IF orgQueryFailed THEN Undefined ELSE findFirstOrganization(userId)
        organizationId == IF isSuperAdmin THEN Undefined ELSE org
        features == IF isSuperAdmin THEN ALL_FEATURES
                    ELSE IF org # Undefined THEN FeatureStringsOf(org)
                    ELSE {}
    IN Ok([sub |-> userId, email |-> EmailOf(userId), role |-> role,
           organizationId |-> organizationId, features |-> features,
           isSuperAdmin |-> isSuperAdmin])

\* the catch of generateTokenPayload: whatever the try block threw is logged
\* and replaced by InternalServerErrorException
generateTokenPayloadCatch(r) ==
  IF r.kind = "ok" THEN r
  ELSE Throw("InternalServerErrorException", "Error generating auth token")

generateTokenPayload(impl, userId) ==
  generateTokenPayloadCatch(
    IF impl = "gms-be" THEN generateTokenPayloadTry(userId)
    ELSE generateTokenPayloadTry_part000(userId))

\* jwtService.sign / passport's verify: the token carries the payload
sign(payload) == [signed |-> payload]

\* ------------------------------------------------- JwtStrategy.validate
\* variants of the try block, each with one of its steps changed
\* (the orphan check dropped)
validateTry_NoOrganizationCheck(payload) ==
  IF payload.sub = Undefined \/ payload.email = Undefined
  THEN Throw("UnauthorizedException", "Invalid token format")
  ELSE IF fault = "user.findUnique" THEN QueryRejected
  ELSE IF ~Live(payload.sub) THEN Throw("UnauthorizedException", "User not found")
  ELSE
    LET row == user[payload.sub]
        org == row.userOffice
    IN Ok([id |-> payload.sub, email |-> EmailOf(payload.sub),
           organizationId |-> org,
           features |-> IF org # Undefined THEN FeatureStringsOf(org) ELSE {},
           isSuperAdmin |-> SomeSuperAdmin(row), role |-> FirstRole(row)])

\* (a missing user read through user?. and rejected by the orphan check)
validateTry_OptionalUser(payload) ==
  IF payload.sub = Undefined \/ payload.email = Undefined
  THEN Throw("UnauthorizedException", "Invalid token format")
  ELSE IF fault = "user.findUnique" THEN QueryRejected
  ELSE IF ~Live(payload.sub)
  THEN Throw("UnauthorizedException", "User has no organization access")
  ELSE
    LET row == user[payload.sub]
        org == row.userOffice
        isSuperAdmin == SomeSuperAdmin(row)
    IN IF ~isSuperAdmin /\ org = Undefined
       THEN Throw("UnauthorizedException", "User has no organization access")
       ELSE Ok([id |-> payload.sub, email |-> EmailOf(payload.sub),
                organizationId |-> org,
                features |-> IF org # Undefined THEN FeatureStringsOf(org) ELSE {},
                isSuperAdmin |-> isSuperAdmin, role |-> FirstRole(row)])

\* (role and features taken from the token where it carries them)
validateTry_TrustsToken(payload) ==
  IF payload.sub = Undefined \/ payload.email = Undefined
  THEN Throw("UnauthorizedException", "Invalid token format")
  ELSE IF fault = "user.findUnique" THEN QueryRejected
  ELSE IF ~Live(payload.sub) THEN Throw("UnauthorizedException", "User not found")
  ELSE
    LET row == user[payload.sub]
        org == row.userOffice
        isSuperAdmin == SomeSuperAdmin(row)
    IN IF ~isSuperAdmin /\ org = Undefined
       THEN Throw("UnauthorizedException", "User has no organization access")
       ELSE Ok([id |-> payload.sub, email |-> EmailOf(payload.sub),
                organizationId |-> org,
                features |-> payload.features,
                isSuperAdmin |-> isSuperAdmin, role |-> payload.role])

\* the try block of validate
validateTry(payload) ==
  IF payload.sub = Undefined \/ payload.email = Undefined
  THEN Throw("UnauthorizedException", "Invalid token format")
  ELSE IF fault = "user.findUnique" THEN QueryRejected
  ELSE IF ~Live(payload.sub) THEN Throw("UnauthorizedException", "User not found")
  ELSE
    LET row == user[payload.sub]
        org == row.userOffice
        organizationId == org
        features == IF org # Undefined THEN FeatureStringsOf(org) ELSE {}
        isSuperAdmin == SomeSuperAdmin(row)
    IN IF ~isSuperAdmin /\ organizationId = Undefined
       THEN Throw("UnauthorizedException", "User has no organization access")
       ELSE Ok([id |-> payload.sub, email |-> EmailOf(payload.sub),
                organizationId |-> organizationId, features |-> features,
                isSuperAdmin |-> isSuperAdmin, role |-> FirstRole(row)])

\* (the catch rethrowing whatever it caught)
validate_Rethrows(payload) == validateTry(payload)

\* the catch of validate: anything but UnauthorizedException becomes
\* UnauthorizedException('Authentication failed')
validate(payload) ==
  LET r == validateTry(payload)
  IN IF r.kind \in {"ok", "UnauthorizedException"} THEN r
     ELSE Throw("UnauthorizedException", "Authentication failed")

\* -------------------------------------------------- RolesGuard.canActivate
\* user?.userId, user?.roleName: a property the object lacks reads undefined
TruthyId(obj, k) == k \in DOMAIN obj /\ obj[k] # Undefined
TruthyString(obj, k) == k \in DOMAIN obj /\ obj[k] # ""

\* request.user when no strategy attached one
NoRequestUser == [missing |-> TRUE]

AccessDenied(requiredRoles) ==
  [kind |-> "ForbiddenException", message |-> "Access denied. Required roles",
   roles |-> requiredRoles]

\* variants of the guard, each with one of its checks changed
\* (organizationAdmin let through without an organization context)
canActivate_NoContextCheck(requiredRoles, reqUser, organizationId) ==
  IF requiredRoles = {} THEN Ok(TRUE)
  ELSE IF ~TruthyId(reqUser, "userId") \/ ~TruthyString(reqUser, "roleName")
  THEN Throw("ForbiddenException", "Missing userId or roleName in token")
  ELSE IF reqUser.roleName = "organizationAdmin" THEN Ok(TRUE)
  ELSE IF reqUser.roleName \notin requiredRoles
  THEN AccessDenied(requiredRoles)
  ELSE Ok(TRUE)

\* (superAdmin let through whatever the required roles)
canActivate_SuperAdminBypass(requiredRoles, reqUser, organizationId) ==
  IF requiredRoles = {} THEN Ok(TRUE)
  ELSE IF ~TruthyId(reqUser, "userId") \/ ~TruthyString(reqUser, "roleName")
  THEN Throw("ForbiddenException", "Missing userId or roleName in token")
  ELSE IF reqUser.roleName = "organizationAdmin"
  THEN IF organizationId = Undefined
       THEN Throw("ForbiddenException", "Organization context missing")
       ELSE Ok(TRUE)
  ELSE IF reqUser.roleName \notin requiredRoles /\ reqUser.roleName # "superAdmin"
  THEN AccessDenied(requiredRoles)
  ELSE Ok(TRUE)

canActivate(requiredRoles, reqUser, organizationId) ==
  IF requiredRoles = {} THEN Ok(TRUE)
  ELSE IF ~TruthyId(reqUser, "userId") \/ ~TruthyString(reqUser, "roleName")
  THEN Throw("ForbiddenException", "Missing userId or roleName in token")
  ELSE IF reqUser.roleName = "organizationAdmin"
  THEN IF organizationId = Undefined
       THEN Throw("ForbiddenException", "Organization context missing")
       ELSE Ok(TRUE)
  ELSE IF reqUser.roleName \notin requiredRoles
  THEN AccessDenied(requiredRoles)
  ELSE Ok(TRUE)

\* the @Roles metadata of OrganizationController's handlers (none on create)
ControllerRoles == { {}, {"organizationAdmin"}, {"superAdmin"} }

\* ------------------------------------------------- the client's user store
\* the JavaScript values the store and its action payloads carry
JsUndefined == [type |-> "undefined"]
JsNull == [type |-> "null"]
JsBool(b) == [type |-> "boolean", b |-> b]
JsString(str) == [type |-> "string", str |-> str]
JsArray(items) == [type |-> "array", items |-> items]

\* the values `!v` and `v || w` take for false
Truthy(v) == v \notin {JsUndefined, JsNull, JsBool(FALSE), JsString("")}

\* v || w
OrElse(v, w) == IF Truthy(v) THEN v ELSE w

\* userSlice.initialState
initialState ==
  [currentUser |-> JsNull, token |-> JsNull,
   isFetching |-> JsBool(FALSE), error |-> JsBool(FALSE)]

\* ----------------------------------------------------------------- actions
Init ==
  /\ user = [i \in UserIds |-> NoUser]
  /\ organization = [o \in OrgIds |-> NoOrganization]
  /\ token = NoToken
  /\ call = NoCall
  /\ res = Idle
  /\ fault = NoFault
  /\ office = [k \in OfficeIds |-> NoOffice]
  /\ creates = [c \in Callers |-> NoCreate]
  /\ schema = [userNameUnique |-> FALSE]   \* not read where every user name is fresh
  /\ state = initialState

\* ids are generated and never reused
FreshUserIds == { i \in DOMAIN user : user[i].status = "never" }
NextUserId == CHOOSE i \in FreshUserIds : \A j \in FreshUserIds : i <= j
FreshOrgIds == { o \in DOMAIN organization : ~organization[o].exists }
NextOrgId == CHOOSE o \in FreshOrgIds : \A q \in FreshOrgIds : o <= q

\* prisma.user.findUnique({ where: { email } })
findUserByEmail(email) ==
  LET hit == { i \in DOMAIN user : Live(i) /\ EmailOf(i) = email }
  IN IF hit = {} THEN Undefined ELSE CHOOSE i \in hit : TRUE

\* (the response built from the role and organization login computes itself
\* from the row it fetched, instead of from the payload)
AuthResponse_FromFetchedUser(id, payload) ==
  LET row == user[id]
      role == FirstRole(row)
      isSuperAdmin == role = "superAdmin"
  IN [token |-> sign(payload),
      user |-> [id |-> id, email |-> EmailOf(id), role |-> role,
                organizationId |-> IF isSuperAdmin THEN Undefined ELSE row.userOffice,
                features |-> IF isSuperAdmin \/ row.userOffice = Undefined THEN {}
                             ELSE FilterBoolean(FeatureStringsOf(row.userOffice)),
                isSuperAdmin |-> isSuperAdmin]]

\* the response login and signup build from the fetched user and the payload
AuthResponse(id, payload) ==
  [token |-> sign(payload),
   user |-> [id |-> id, email |-> EmailOf(id), role |-> payload.role,
             organizationId |-> payload.organizationId,
             features |-> payload.features,
             isSuperAdmin |-> payload.isSuperAdmin]]

\* -- persistence changes made by the CRUD layer outside the core.  A login
\*    or signup in flight reads the tables in its second step only, so a
\*    change made while it waits is the same change made before it started;
\*    the one step that matters in between is the deletion of its user.
SetUserRoles(u, bindings) ==
  /\ call = NoCall
  /\ Live(u) /\ user[u].userRoles # bindings
  /\ user' = [user EXCEPT ![u].userRoles = bindings]
  /\ res' = Idle
  /\ UNCHANGED <<organization, token, call, fault, office, creates, schema, state>>

SetUserOffice(u, o) ==
  /\ call = NoCall
  /\ Live(u) /\ user[u].userOffice # o
  /\ IF o = Undefined THEN TRUE ELSE organization[o].exists
  /\ user' = [user EXCEPT ![u].userOffice = o]
  /\ res' = Idle
  /\ UNCHANGED <<organization, token, call, fault, office, creates, schema, state>>

SetOrganizationFeatures(o, fs) ==
  /\ call = NoCall
  /\ organization[o].exists /\ organization[o].features # fs
  /\ organization' = [organization EXCEPT ![o].features = fs]
  /\ res' = Idle
  /\ UNCHANGED <<user, token, call, fault, office, creates, schema, state>>

\* a user row is deleted; this may happen while a login or signup is in flight
DeleteUser(u) ==
  /\ Live(u)
  /\ user' = [user EXCEPT ![u] = DeletedUser]
  /\ res' = Idle
  /\ UNCHANGED <<organization, token, call, fault, office, creates, schema, state>>

\* -- AuthService.signup: userService.create, then generateTokenPayload.
\*    Every signup brings an address and a user name of its own.
SignupCreate(impl) ==
  /\ call = NoCall
  /\ FreshUserIds # {}
  /\ user' = [user EXCEPT ![NextUserId] =
                [status |-> "live", email |-> Address(NextUserId),
                 userName |-> Handle(NextUserId), password |-> RegisteredPassword,
                 userRoles |-> <<>>, userOffice |-> Undefined]]
  /\ call' = [op |-> "signup", impl |-> impl, userId |-> NextUserId]
  /\ res' = Idle
  /\ UNCHANGED <<organization, token, fault, office, creates, schema, state>>

SignupResolve ==
  /\ call.op = "signup"
  /\ LET r == generateTokenPayload(call.impl, call.userId)
     IN /\ res' = [op |-> "signup", impl |-> call.impl, userId |-> call.userId,
                   resolved |-> TRUE,
                   out |-> IF r.kind = "ok" THEN Ok(AuthResponse(call.userId, r.value)) ELSE r]
        /\ token' = IF r.kind = "ok" THEN sign(r.value) ELSE token
  /\ call' = NoCall
  /\ UNCHANGED <<user, organization, fault, office, creates, schema, state>>

\* -- AuthService.login, up to the password check
loginCatch(r) ==
  IF r.kind \in {"ok", "NotFoundException", "UnauthorizedException"} THEN r
  ELSE Throw("InternalServerErrorException", "Login failed")

\* (the password comparison dropped: any password of a known email goes on)
LoginFind_NoPasswordCheck(impl, email, password) ==
  /\ call = NoCall
  /\ LET id == findUserByEmail(email)
         dto == [email |-> email, password |-> password]
     IN IF id = Undefined
        THEN /\ res' = [op |-> "login", impl |-> impl, userId |-> id, dto |-> dto,
                        resolved |-> FALSE,
                        out |-> loginCatch(Throw("NotFoundException", "User not found"))]
             /\ call' = NoCall
        ELSE /\ call' = [op |-> "login", impl |-> impl, userId |-> id, dto |-> dto]
             /\ res' = Idle
  /\ UNCHANGED <<user, organization, token, fault, office, creates, schema, state>>

LoginFind(impl, email, password) ==
  /\ call = NoCall
  /\ LET id == findUserByEmail(email)
         dto == [email |-> email, password |-> password]
         fail(r) == /\ res' = [op |-> "login", impl |-> impl, userId |-> id, dto |-> dto,
                               resolved |-> FALSE, out |-> loginCatch(r)]
                    /\ call' = NoCall
     IN IF fault = "user.findUnique"
        THEN /\ res' = [op |-> "login", impl |-> impl, userId |-> Undefined, dto |-> dto,
                        resolved |-> FALSE, out |-> loginCatch(QueryRejected)]
             /\ call' = NoCall
        ELSE IF id = Undefined
        THEN fail(Throw("NotFoundException", "User not found"))
        ELSE IF user[id].password # password
        THEN fail(Throw("UnauthorizedException", "Invalid credentials"))
        ELSE /\ call' = [op |-> "login", impl |-> impl, userId |-> id, dto |-> dto]
             /\ res' = Idle
  /\ UNCHANGED <<user, organization, token, fault, office, creates, schema, state>>

\* -- AuthService.login, from generateTokenPayload to the response
LoginResolve ==
  /\ call.op = "login"
  /\ LET r == generateTokenPayload(call.impl, call.userId)
     IN /\ res' = [op |-> "login", impl |-> call.impl, userId |-> call.userId,
                   dto |-> call.dto, resolved |-> TRUE,
                   out |-> loginCatch(IF r.kind = "ok"
                                      THEN Ok(AuthResponse(call.userId, r.value)) ELSE r)]
        /\ token' = IF r.kind = "ok" THEN sign(r.value) ELSE token
  /\ call' = NoCall
  /\ UNCHANGED <<user, organization, fault, office, creates, schema, state>>

\* -- OrganizationService.create, as one call that runs alone with an address
\*    and a user name of its own and no offices: the admin user (role
\*    organizationAdmin), the organization it administers and its feature
\*    rows, in one transaction
OrganizationCreate(features) ==
  /\ call = NoCall
  /\ FreshUserIds # {} /\ FreshOrgIds # {}
  /\ IF features = {}
     THEN /\ res' = [op |-> "create", userId |-> Undefined, organizationId |-> Undefined,
                     out |-> Throw("InternalServerErrorException",
                                   "At least one feature must be provided")]
          /\ UNCHANGED <<user, organization>>
     ELSE /\ user' = [user EXCEPT ![NextUserId] =
                        [status |-> "live", email |-> Address(NextUserId),
                         userName |-> Handle(NextUserId), password |-> RegisteredPassword,
                         userRoles |-> <<"organizationAdmin">>, userOffice |-> Undefined]]
          /\ organization' = [organization EXCEPT ![NextOrgId] =
                        [exists |-> TRUE, email |-> Address(NextUserId),
                         userId |-> NextUserId, features |-> features]]
          /\ res' = [op |-> "create", userId |-> NextUserId, organizationId |-> NextOrgId,
                     out |-> Ok([roleName |-> "organizationAdmin", features |-> features,
                                 isSuperAdmin |-> FALSE])]
  /\ UNCHANGED <<token, call, fault, office, creates, schema, state>>

\* -- a protected request: passport verifies the bearer token's signature
\*    and hands the payload it carries to JwtStrategy.validate
verify(t) == t.signed

Validate ==
  /\ call = NoCall
  /\ token # NoToken
  /\ res' = [op |-> "validate", payload |-> verify(token), out |-> validate(verify(token))]
  /\ UNCHANGED <<user, organization, token, call, fault, office, creates, schema, state>>

\* -- RolesGuard.canActivate on the request JwtAuthGuard let through:
\*    request.user is what validate returned
CanActivate(requiredRoles, organizationId) ==
  /\ call = NoCall
  /\ res.op = "validate" /\ res.out.kind = "ok"
  /\ res' = [op |-> "canActivate", reqUser |-> res.out.value,
             requiredRoles |-> requiredRoles, organizationId |-> organizationId,
             out |-> canActivate(requiredRoles, res.out.value, organizationId)]
  /\ UNCHANGED <<user, organization, token, call, fault, office, creates, schema, state>>

\* issuance and validation of credentials over a changing persisted state
AuthNext ==
  \/ \E u \in UserIds, b \in RoleBindingLists : SetUserRoles(u, b)
  \/ \E u \in UserIds, o \in OrgIds \cup {Undefined} : SetUserOffice(u, o)
  \/ \E o \in OrgIds, fs \in SUBSET FeatureStrings : SetOrganizationFeatures(o, fs)
  \/ \E u \in UserIds : DeleteUser(u)
  \/ \E impl \in Impls : SignupCreate(impl)
  \/ SignupResolve
  \/ \E impl \in Impls, email \in Emails, pw \in Passwords : LoginFind(impl, email, pw)
  \/ LoginResolve
  \/ \E fs \in SUBSET FeatureStrings : OrganizationCreate(fs)
  \/ Validate

SpecAuth == Init /\ [][AuthNext]_vars

\* the whole request path: the guard runs on what validate returned
Next ==
  \/ AuthNext
  \/ \E rr \in ControllerRoles, o \in OrgIds \cup {Undefined} : CanActivate(rr, o)

Spec == Init /\ [][Next]_vars

\* ---------------------------------------- the gate as a decision function
\* RolesGuard.canActivate keeps no state: it is applied to every request
\* object the routing layer can hand it
GateRoles == RoleNames \cup {DefaultRole}

RequestUsers ==
  {NoRequestUser}
  \cup { [userId |-> u, roleName |-> r] : u \in UserIds \cup {Undefined}, r \in GateRoles \cup {""} }
  \cup { [userId |-> u] : u \in UserIds }
  \cup { [roleName |-> r] : r \in GateRoles }
  \cup { [id |-> u, email |-> Address(u), organizationId |-> Undefined, features |-> {},
          isSuperAdmin |-> r = "superAdmin", role |-> r] : u \in UserIds, r \in GateRoles }

GateInit == Init

GateCanActivate(requiredRoles, reqUser, organizationId) ==
  /\ res' = [op |-> "canActivate", reqUser |-> reqUser,
             requiredRoles |-> requiredRoles, organizationId |-> organizationId,
             out |-> canActivate(requiredRoles, reqUser, organizationId)]
  /\ UNCHANGED <<user, organization, token, call, fault, office, creates, schema, state>>

GateNext ==
  \E rr \in SUBSET GateRoles, ru \in RequestUsers, o \in OrgIds \cup {Undefined} :
    GateCanActivate(rr, ru, o)

SpecGate == GateInit /\ [][GateNext]_vars

\* ------------------------------- resolution over a failing persistence layer
\* the database becomes unreachable for one of the awaited queries, or
\* reachable again; this can happen while a login or signup is in flight
SetFault(f) ==
  /\ fault # f
  /\ fault' = f
  /\ res' = Idle
  /\ UNCHANGED <<user, organization, token, call, office, creates, schema, state>>

\* the payloads passport can hand to validate: any object signed with the
\* server's secret, so also one that lacks sub or email
DecodedPayloads ==
  { [sub |-> s, email |-> e, role |-> DefaultRole, organizationId |-> Undefined,
     features |-> {}, isSuperAdmin |-> FALSE]
      : s \in UserIds \cup {Undefined}, e \in Emails \cup {Undefined} }

ValidateDecoded(payload) ==
  /\ call = NoCall
  /\ res' = [op |-> "validate", payload |-> payload, out |-> validate(payload)]
  /\ UNCHANGED <<user, organization, token, call, fault, office, creates, schema, state>>

\* users and organizations come into being and are bound as in the
\* issuance specification; what is added is the failing query
FaultNext ==
  \/ \E f \in Faults \cup {NoFault} : SetFault(f)
  \/ \E u \in UserIds, o \in OrgIds \cup {Undefined} : SetUserOffice(u, o)
  \/ \E impl \in Impls : SignupCreate(impl)
  \/ SignupResolve
  \/ \E impl \in Impls, email \in Emails, pw \in Passwords : LoginFind(impl, email, pw)
  \/ LoginResolve
  \/ \E fs \in SUBSET FeatureStrings : OrganizationCreate(fs)
  \/ \E p \in DecodedPayloads : ValidateDecoded(p)

SpecFault == Init /\ [][FaultNext]_vars

\* ------------------------ OrganizationService.create, call by call, and
\* ------------------------ OrganizationService.deleteOffice
\* what a create dto carries, as far as the service reads it: office is the
\* number of entries of dto.office
CreateDtos ==
  [ email : { Address(c) : c \in Callers },
    userName : { Handle(c) : c \in Callers },
    features : { {}, {"payroll"} },
    office : {0, 1} ]

\* the lookups of the pre-check and the unique indexes of the inserts
organizationEmailTaken(email) ==
  \E o \in DOMAIN organization : organization[o].exists /\ organization[o].email = email
userEmailTaken(email) == \E u \in DOMAIN user : Live(u) /\ user[u].email = email
userNameTaken(userName) == \E u \in DOMAIN user : Live(u) /\ user[u].userName = userName

\* Prisma's error for an insert that violates a unique index
P2002(field) ==
  [kind |-> "PrismaClientKnownRequestError", message |-> "Unique constraint failed",
   code |-> "P2002", target |-> field]

\* create up to the transaction: the features test and the three lookups
createPrecheck(dto) ==
  IF dto.features = {} THEN Throw("Error", "At least one feature must be provided")
  ELSE IF organizationEmailTaken(dto.email)
  THEN Throw("ConflictException", "Organization with this email already exists")
  ELSE IF userEmailTaken(dto.email)
  THEN Throw("ConflictException", "A user with this email already exists")
  ELSE IF userNameTaken(dto.userName)
  THEN Throw("ConflictException", "Username already exists")
  ELSE Ok(TRUE)

\* the inserts of the transaction against the tables as they are when it
\* commits: user.email and organization.email carry a unique index (the
\* code looks them up with findUnique), user.userName carries one or not
createInserts(dto) ==
  IF userEmailTaken(dto.email) THEN P2002("email")
  ELSE IF schema.userNameUnique /\ userNameTaken(dto.userName) THEN P2002("userName")
  ELSE IF organizationEmailTaken(dto.email) THEN P2002("email")
  ELSE Ok(TRUE)

\* the catch of create
createCatch(r) ==
  IF r.kind \in {"ok", "ConflictException", "NotFoundException"} THEN r
  ELSE IF "code" \in DOMAIN r /\ r.code = "P2002"
  THEN [kind |-> "ConflictException", message |-> "already exists", field |-> r.target]
  ELSE Throw("InternalServerErrorException", r.message)

FreshOfficeIds == { k \in DOMAIN office : office[k].status = "never" }
\* the n smallest fresh office ids
NextOfficeIds(n) == { k \in FreshOfficeIds : Cardinality({ j \in FreshOfficeIds : j < k }) < n }

CreateFailed(dto, r) ==
  [pc |-> "done", dto |-> dto, out |-> createCatch(r),
   userId |-> Undefined, organizationId |-> Undefined]

\* a caller's create call runs up to the await of the transaction
CreatePrecheck(c, dto) ==
  /\ creates[c].pc = "idle"
  /\ LET r == createPrecheck(dto)
     IN creates' = [creates EXCEPT ![c] =
                      IF r.kind = "ok" THEN [pc |-> "transaction", dto |-> dto]
                      ELSE CreateFailed(dto, r)]
  /\ res' = Idle
  /\ UNCHANGED <<user, organization, office, token, call, fault, schema, state>>

\* the transaction commits (user with its organizationAdmin binding, the
\* organization with its feature rows, the offices) or rolls back as a whole
CreateTransaction(c) ==
  /\ creates[c].pc = "transaction"
  /\ LET dto == creates[c].dto
         r == createInserts(dto)
     IN IF r.kind = "ok"
        THEN /\ FreshUserIds # {} /\ FreshOrgIds # {}
             /\ Cardinality(FreshOfficeIds) >= dto.office
             /\ user' = [user EXCEPT ![NextUserId] =
                           [status |-> "live", email |-> dto.email,
                            userName |-> dto.userName, password |-> RegisteredPassword,
                            userRoles |-> <<"organizationAdmin">>, userOffice |-> Undefined]]
             /\ organization' = [organization EXCEPT ![NextOrgId] =
                           [exists |-> TRUE, email |-> dto.email,
                            userId |-> NextUserId, features |-> dto.features]]
             /\ office' = [k \in DOMAIN office |->
                             IF k \in NextOfficeIds(dto.office)
                             THEN [status |-> "live", organizationId |-> NextOrgId]
                             ELSE office[k]]
             /\ creates' = [creates EXCEPT ![c] =
                   [pc |-> "done", dto |-> dto,
                    out |-> Ok([user |-> [id |-> NextUserId, email |-> dto.email,
                                          userName |-> dto.userName,
                                          roleName |-> "organizationAdmin",
                                          organizationId |-> NextOrgId,
                                          features |-> dto.features,
                                          isSuperAdmin |-> FALSE],
                                organization |-> [id |-> NextOrgId,
                                                  features |-> dto.features]]),
                    userId |-> NextUserId, organizationId |-> NextOrgId]]
        ELSE /\ creates' = [creates EXCEPT ![c] = CreateFailed(dto, r)]
             /\ UNCHANGED <<user, organization, office>>
  /\ res' = Idle
  /\ UNCHANGED <<token, call, fault, schema, state>>

\* (the office deleted whatever organization it belongs to)
deleteOffice_NoTenantCheck(officeId, organizationId) ==
  IF office[officeId].status # "live"
  THEN Throw("NotFoundException", "Office with this ID doesn't exist")
  ELSE Ok(officeId)

\* deleteOffice: the lookup and the test that precede prisma.office.delete
deleteOffice(officeId, organizationId) ==
  IF office[officeId].status # "live" \/ office[officeId].organizationId # organizationId
  THEN Throw("NotFoundException", "Office with this ID doesn't exist")
  ELSE Ok(officeId)

DeleteOffice(officeId, organizationId) ==
  /\ LET r == deleteOffice(officeId, organizationId)
     IN /\ office' = IF r.kind = "ok" THEN [office EXCEPT ![officeId] = DeletedOffice]
                     ELSE office
        /\ res' = [op |-> "deleteOffice", officeId |-> officeId,
                   organizationId |-> organizationId,
                   owner |-> office[officeId].organizationId, out |-> r]
  /\ UNCHANGED <<user, organization, token, call, fault, creates, schema, state>>

\* every caller can have one create call under way; the tables hold a row
\* for each; the user table carries a unique index on userName or none
OrgInit ==
  /\ user = [i \in Callers |-> NoUser]
  /\ organization = [o \in Callers |-> NoOrganization]
  /\ office = [k \in OfficeIds |-> NoOffice]
  /\ creates = [c \in Callers |-> NoCreate]
  /\ schema \in [userNameUnique : BOOLEAN]
  /\ token = NoToken
  /\ call = NoCall
  /\ res = Idle
  /\ fault = NoFault
  /\ state = initialState

OrgNext ==
  \/ \E c \in Callers, dto \in CreateDtos : CreatePrecheck(c, dto)
  \/ \E c \in Callers : CreateTransaction(c)
  \/ \E k \in OfficeIds, o \in Callers \cup {Undefined} : DeleteOffice(k, o)

SpecOrg == OrgInit /\ [][OrgNext]_vars

\* the dtos of a caller that registers under an address and a user name of
\* its own, with a feature, with or without a first office
OwnDtos(c) ==
  { dto \in CreateDtos :
      dto.email = Address(c) /\ dto.userName = Handle(c) /\ dto.features = {"payroll"} }

\* office management: every caller registers an organization of its own,
\* and deleteOffice is called with any office id and any caller's
\* organization
OfficeNext ==
  \/ \E c \in Callers : \E dto \in OwnDtos(c) : CreatePrecheck(c, dto)
  \/ \E c \in Callers : CreateTransaction(c)
  \/ \E k \in OfficeIds, o \in Callers \cup {Undefined} : DeleteOffice(k, o)

SpecOffice == OrgInit /\ [][OfficeNext]_vars

\* ------------------------------------------------- userSlice: the reducers
\* the tokens a response or a setToken can carry
StoreTokens == { JsString("jwt1"), JsString("jwt2") }

\* the user objects a login response can carry: features and isSuperAdmin
\* can be missing
ResponseUsers ==
  { [type |-> "object", email |-> Address(c), features |-> f, isSuperAdmin |-> a] :
      c \in Callers,
      f \in {JsUndefined, JsArray({}), JsArray({"payroll"})},
      a \in {JsUndefined, JsBool(FALSE), JsBool(TRUE)} }

\* payload.data of a loginSuccess: missing, null, or { token, user } where
\* user can be missing
LoginData ==
  {JsUndefined, JsNull}
  \cup { [type |-> "object", token |-> t, user |-> u] :
           t \in StoreTokens, u \in ResponseUsers \cup {JsUndefined} }

\* action.payload of a loginSuccess: missing, or an object with its data
LoginPayloads == {JsUndefined} \cup { [type |-> "object", data |-> d] : d \in LoginData }

\* action.payload of a loginFailure: missing, an empty or a real message
FailurePayloads == { JsUndefined, JsString(""), JsString("Network Error") }

\* action.payload of a setToken
TokenPayloads == StoreTokens \cup {JsNull, JsUndefined}

\* payload?.data
DataOf(payload) == IF payload \in {JsUndefined, JsNull} THEN JsUndefined ELSE payload.data

\* reducers.loginStart
loginStart(s) == [s EXCEPT !.isFetching = JsBool(TRUE), !.error = JsBool(FALSE)]

\* reducers.loginSuccess; reading user.features of a missing user throws
\* out of the reducer, and the draft is dropped: the state stays as it was
loginSuccess(s, payload) ==
  LET data == DataOf(payload)
  IN IF ~Truthy(data)
     THEN [s EXCEPT !.isFetching = JsBool(FALSE),
                    !.error = JsString("Invalid login response")]
     ELSE IF data.user \in {JsUndefined, JsNull}
     THEN s
     ELSE [s EXCEPT !.isFetching = JsBool(FALSE),
                    !.token = data.token,
                    !.currentUser =
                       [data.user EXCEPT
                          !.features = OrElse(data.user.features, JsArray({})),
                          !.isSuperAdmin = OrElse(data.user.isSuperAdmin, JsBool(FALSE))],
                    !.error = JsBool(FALSE)]

\* reducers.loginFailure
loginFailure(s, payload) ==
  [s EXCEPT !.isFetching = JsBool(FALSE),
            !.error = OrElse(payload, JsBool(TRUE)),
            !.currentUser = JsNull,
            !.token = JsNull]

\* reducers.signOut
signOut(s) ==
  [s EXCEPT !.currentUser = JsNull, !.token = JsNull,
            !.isFetching = JsBool(FALSE), !.error = JsBool(FALSE)]

\* reducers.setToken
setToken(s, payload) == [s EXCEPT !.token = payload]

\* reducers.clearToken
clearToken(s) == [s EXCEPT !.token = JsNull]

\* a dispatch of one of the slice's actions
Dispatch(next) ==
  /\ state' = next
  /\ UNCHANGED <<user, organization, token, call, res, fault, office, creates, schema>>

LoginStart == Dispatch(loginStart(state))
LoginSuccess == \E payload \in LoginPayloads : Dispatch(loginSuccess(state, payload))
LoginFailure == \E payload \in FailurePayloads : Dispatch(loginFailure(state, payload))
SignOut == Dispatch(signOut(state))
SetToken == \E payload \in TokenPayloads : Dispatch(setToken(state, payload))
ClearToken == Dispatch(clearToken(state))

StoreNext ==
  \/ LoginStart
  \/ LoginSuccess
  \/ LoginFailure
  \/ SignOut
  \/ SetToken
  \/ ClearToken

SpecStore == Init /\ [][StoreNext]_vars

\* ================================================================== claims
\* the payloads a credential of sub can carry: sub and email are the
\* user's, the embedded claims are any that a resolution can have embedded
EmbeddedClaims ==
  { [role |-> "superAdmin", organizationId |-> Undefined,
     features |-> ALL_FEATURES, isSuperAdmin |-> TRUE] }
  \cup
  { [role |-> r, organizationId |-> o, features |-> fs, isSuperAdmin |-> FALSE]
      : r \in {"organizationAdmin", DefaultRole},
        o \in OrgIds \cup {Undefined},
        fs \in SUBSET FeatureStrings }

SignedPayloads(sub) ==
  { [sub |-> sub, email |-> Address(sub), role |-> c.role,
     organizationId |-> c.organizationId, features |-> c.features,
     isSuperAdmin |-> c.isSuperAdmin] : c \in EmbeddedClaims }

\* what the claims say about a user, read off the persisted state
NonSuperAdmin(u) == Live(u) /\ ~SomeSuperAdmin(user[u])
\* no organization is bound to the user, neither through userOffice[0] nor
\* through organization.userId
NoResolvableOrganization(u) ==
  user[u].userOffice = Undefined /\ findFirstOrganization(u) = Undefined

\* a login or signup that got as far as generateTokenPayload
Resolved == res.op \in {"login", "signup"} /\ res.resolved
Issued == Resolved /\ res.out.kind = "ok"
IssuedPayload == res.out.value.token.signed
Validated == res.op = "validate"
Principal == res.out.value
Gated == res.op = "canActivate"
Allowed == res.out = Ok(TRUE)
\* the request object is one the guard accepts as carrying an identity
WellFormedRequestUser == TruthyId(res.reqUser, "userId") /\ TruthyString(res.reqUser, "roleName")

\* C1: every principal JwtStrategy.validate returns is consumed by
\* RolesGuard.canActivate: when the operation's non-empty requiredRoles
\* holds the principal's role (and, for organizationAdmin, an organization
\* context is attached), the guard returns true.
C1_PrincipalConsumedByGuard ==
  ( /\ Gated
    /\ res.requiredRoles # {}
    /\ res.reqUser.role \in res.requiredRoles
    /\ (res.reqUser.role = "organizationAdmin" => res.organizationId # Undefined) )
  => Allowed

C3_DeletedUserRejected ==
  /\ [] ( Validated /\ user[res.payload.sub].status = "deleted"
          => res.out = Throw("UnauthorizedException", "User not found") )
  /\ [][ \A u \in UserIds : user[u].status = "deleted" => user'[u].status = "deleted" ]_vars

C3_Witness ==
  /\ Validated
  /\ token # NoToken
  /\ user[res.payload.sub].status = "deleted"
  /\ res.out.kind = "UnauthorizedException"

\* C4: what validate returns depends on the token's sub and the persisted
\* state only: two payloads of one sub that embed different claims validate
\* alike, and the principal carries the role, organization and features the
\* persisted state holds at validation, whatever the token embeds.
C4_PrincipalIgnoresEmbeddedClaims ==
  /\ ( Validated => \A p \in SignedPayloads(res.payload.sub) : validate(p) = res.out )
  /\ ( Validated /\ res.out.kind = "ok"
       => LET row == user[res.payload.sub]
          IN /\ Principal.id = res.payload.sub
             /\ Principal.role = FirstRole(row)
             /\ Principal.isSuperAdmin = SomeSuperAdmin(row)
             /\ Principal.organizationId = row.userOffice
             /\ Principal.features =
                  IF row.userOffice = Undefined THEN {}
                  ELSE organization[row.userOffice].features )

C4_Witness ==
  /\ Validated /\ res.out.kind = "ok"
  /\ res.payload.role # Principal.role
  /\ res.payload.features # Principal.features
  /\ res.payload.organizationId # Principal.organizationId

\* C5: for a request user whose role is organizationAdmin and non-empty
\* requiredRoles, the guard allows iff an organization context is attached
\* to the request; without one it throws Forbidden('Organization context
\* missing'), also when organizationAdmin is among the required roles.
C5_OrganizationAdminNeedsContext ==
  ( /\ Gated
    /\ res.requiredRoles # {}
    /\ WellFormedRequestUser
    /\ res.reqUser.roleName = "organizationAdmin" )
  => /\ Allowed <=> res.organizationId # Undefined
     /\ res.organizationId = Undefined
          => res.out = Throw("ForbiddenException", "Organization context missing")

C5_Witness ==
  /\ Gated
  /\ WellFormedRequestUser
  /\ res.reqUser.roleName = "organizationAdmin"
  /\ res.requiredRoles = {"organizationAdmin"}
  /\ res.organizationId = Undefined
  /\ res.out = Throw("ForbiddenException", "Organization context missing")

\* C6: with empty (or absent) requiredRoles the guard allows any request,
\* also one with a missing or malformed user; with non-empty requiredRoles
\* and a well-formed user whose role is not organizationAdmin it allows iff
\* the role is among requiredRoles and otherwise throws Forbidden listing
\* the required roles.
C6_RoleMembershipDecides ==
  /\ ( Gated /\ res.requiredRoles = {} => Allowed )
  /\ ( /\ Gated
       /\ res.requiredRoles # {}
       /\ WellFormedRequestUser
       /\ res.reqUser.roleName # "organizationAdmin"
       => /\ Allowed <=> res.reqUser.roleName \in res.requiredRoles
          /\ res.reqUser.roleName \notin res.requiredRoles
               => res.out = AccessDenied(res.requiredRoles) )

C6_Witness ==
  /\ Gated
  /\ WellFormedRequestUser
  /\ res.requiredRoles = {"superAdmin"}
  /\ res.reqUser.roleName = DefaultRole
  /\ res.out = AccessDenied({"superAdmin"})

\* C7: for a user holding a superAdmin role binding every principal, the
\* one resolved at login/signup and the one validate returns, has
\* isSuperAdmin true, no organizationId and the whole ALL_FEATURES catalog,
\* whatever office and organization rows the user is linked to.  Stated for
\* the users whose first binding is superAdmin, whom every reading of
\* "holding a superAdmin binding" includes.
C7_SuperAdminPrincipal ==
  /\ ( Issued /\ Live(res.userId) /\ FirstRole(user[res.userId]) = "superAdmin"
       => /\ IssuedPayload.isSuperAdmin
          /\ IssuedPayload.organizationId = Undefined
          /\ IssuedPayload.features = ALL_FEATURES )
  /\ ( /\ Validated /\ res.out.kind = "ok"
       /\ FirstRole(user[res.payload.sub]) = "superAdmin"
       => /\ Principal.isSuperAdmin
          /\ Principal.organizationId = Undefined
          /\ Principal.features = ALL_FEATURES )

\* C8: for a non-superadmin user bound to an organization whose feature
\* rows carry the strings F, the principal resolved at login/signup has
\* that organization's id and the features F without the empty strings.
\* Stated for the users both binding relations bind to the same
\* organization, so that "the organization" is the same under each copy of
\* generateTokenPayload.
C8_ResolvedFeaturesAreFilteredRows ==
  ( /\ Issued
    /\ NonSuperAdmin(res.userId)
    /\ user[res.userId].userOffice # Undefined
    /\ findFirstOrganization(res.userId) = user[res.userId].userOffice )
  => /\ IssuedPayload.organizationId = user[res.userId].userOffice
     /\ IssuedPayload.features =
          FilterBoolean(organization[user[res.userId].userOffice].features)

\* C9: round trip: validating the credential just issued from resolve(u),
\* with no data change in between, yields a principal whose id, email,
\* role, organizationId, features and isSuperAdmin are those of a fresh
\* resolve(u).  Stated for the validations that yield a principal.
C9_RoundTrip ==
  ( /\ Validated /\ res.out.kind = "ok"
    /\ \E impl \in Impls : generateTokenPayload(impl, res.payload.sub) = Ok(res.payload) )
  => /\ Principal.id = res.payload.sub
     /\ Principal.email = res.payload.email
     /\ Principal.role = res.payload.role
     /\ Principal.organizationId = res.payload.organizationId
     /\ Principal.features = res.payload.features
     /\ Principal.isSuperAdmin = res.payload.isSuperAdmin

\* C10: when the user row is gone at the moment generateTokenPayload runs
\* (deleted between the credential check and claim resolution), the call
\* fails with NotFound, and login/signup surface that NotFound unchanged.
C10_NotFoundPreserved ==
  ( Resolved /\ user[res.userId].status = "deleted" )
  => res.out.kind = "NotFoundException"

\* a login whose dto names a known user and carries another password than
\* the one that user registered
WrongPasswordLogin ==
  /\ res.op = "login"
  /\ res.userId # Undefined
  /\ res.dto.password # RegisteredPassword

\* C11: a login with the email of an existing user and a password that
\* does not match fails with Unauthorized('Invalid credentials'); it never
\* reaches generateTokenPayload, and the step that ends it signs nothing:
\* the client's credential is the one it held before and the outcome
\* carries no token.
C11_WrongPasswordRejected ==
  /\ [] ( WrongPasswordLogin
          => /\ res.out = Throw("UnauthorizedException", "Invalid credentials")
             /\ ~res.resolved )
  /\ [][ WrongPasswordLogin' => token' = token /\ call' = NoCall ]_vars

C11_Witness ==
  /\ WrongPasswordLogin
  /\ Live(res.userId)
  /\ res.out.kind = "UnauthorizedException"
  /\ token = NoToken

\* C12: a login with an email that matches no user fails with
\* Unauthorized, the same kind a known email with a wrong password fails
\* with, and issues no token.
C12_UnknownEmailUnauthorized ==
  ( /\ res.op = "login"
    /\ findUserByEmail(res.dto.email) = Undefined
    /\ ~res.resolved )
  => res.out.kind = "UnauthorizedException"

\* C13: validate never fails with anything but Unauthorized: a payload
\* lacking sub or email fails with Unauthorized('Invalid token format')
\* whatever the state of the persistence layer (no query is awaited before),
\* and a rejected user query surfaces as Unauthorized('Authentication
\* failed'), which carries nothing of the error caught.
C13_ValidateFailsOnlyUnauthorized ==
  /\ ( Validated => res.out.kind \in {"ok", "UnauthorizedException"} )
  /\ ( Validated /\ (res.payload.sub = Undefined \/ res.payload.email = Undefined)
       => res.out = Throw("UnauthorizedException", "Invalid token format") )
  /\ ( /\ Validated
       /\ res.payload.sub # Undefined /\ res.payload.email # Undefined
       /\ fault = "user.findUnique"
       => res.out = Throw("UnauthorizedException", "Authentication failed") )

C13_Witness ==
  /\ Validated
  /\ Live(res.payload.sub)
  /\ fault = "user.findUnique"
  /\ res.out = Throw("UnauthorizedException", "Authentication failed")

\* a resolution in which the user query returned the row and the query for
\* the user's organization and its features rejected.  Only the part_000
\* copy awaits such a query; the gms-be copy reads the organization off the
\* row the user query returned.
OrganizationFetchFailed ==
  /\ Resolved
  /\ res.impl = "part_000"
  /\ fault = "organization.findFirst"
  /\ Live(res.userId)
  /\ FirstRole(user[res.userId]) # "superAdmin"

\* C15: once the user query has returned the row, resolution is not
\* aborted: login/signup return a response; and when the fetch of the
\* organization and its features failed for a non-superadmin user, the
\* principal is returned with features [].
C15_OrganizationFetchFailureDegrades ==
  /\ ( Resolved /\ Live(res.userId) /\ fault # "user.findUnique"
       => res.out.kind = "ok" )
  /\ ( OrganizationFetchFailed
       => /\ res.out.kind = "ok"
          /\ IssuedPayload.features = {}
          /\ IssuedPayload.sub = res.userId
          /\ ~IssuedPayload.isSuperAdmin )

C15_Witness ==
  /\ OrganizationFetchFailed
  /\ findFirstOrganization(res.userId) # Undefined
  /\ organization[findFirstOrganization(res.userId)].features # {}
  /\ res.out.kind = "ok"
  /\ IssuedPayload.features = {}

\* C14: a login or signup that returns a response returns a token signed
\* over exactly the payload generateTokenPayload returns for its user in
\* that call, together with the role, organizationId, features and
\* isSuperAdmin of that payload; the dto's fields never enter the payload;
\* and no other step produces a token.
C14_TokenSignedOverFreshPayload ==
  /\ [] ( res.op \in {"login", "signup"} /\ res.out.kind = "ok"
          => /\ res.resolved
             /\ generateTokenPayload(res.impl, res.userId) = Ok(IssuedPayload)
             /\ res.out.value.token = sign(IssuedPayload)
             /\ token = res.out.value.token
             /\ res.out.value.user.id = IssuedPayload.sub
             /\ res.out.value.user.role = IssuedPayload.role
             /\ res.out.value.user.organizationId = IssuedPayload.organizationId
             /\ res.out.value.user.features = IssuedPayload.features
             /\ res.out.value.user.isSuperAdmin = IssuedPayload.isSuperAdmin )
  /\ [][ token' # token => res'.op \in {"login", "signup"} /\ res'.out.kind = "ok" ]_vars

C14_Witness ==
  /\ Issued
  /\ res.op = "login"
  /\ token = res.out.value.token
  /\ IssuedPayload.organizationId # Undefined
  /\ IssuedPayload.features # {}
  /\ res.out.value.user.features = IssuedPayload.features

\* C16: in every principal, the payload login/signup resolve and the
\* principal validate returns alike, role is the first binding's roleName
\* ('user' without bindings) and isSuperAdmin is true iff that role is
\* 'superAdmin'; later bindings change neither.
C16_FirstBindingDecides ==
  /\ ( Issued /\ Live(res.userId)
       => /\ IssuedPayload.role = FirstRole(user[res.userId])
          /\ IssuedPayload.isSuperAdmin = (FirstRole(user[res.userId]) = "superAdmin") )
  /\ ( Validated /\ res.out.kind = "ok"
       => /\ Principal.role = FirstRole(user[res.payload.sub])
          /\ Principal.isSuperAdmin = (FirstRole(user[res.payload.sub]) = "superAdmin") )

CreatedOk(c) == creates[c].pc = "done" /\ creates[c].out.kind = "ok"
CreateRejected(c) == creates[c].pc = "done" /\ creates[c].out.kind # "ok"

\* C18: after create succeeded, with or without offices, the admin user it
\* created can authenticate: claim resolution for that user (either copy)
\* yields the new organization's id and the features given at creation,
\* and validating the credential signed over it returns a principal bound
\* to that organization.
C18_CreatedAdminAuthenticates ==
  \A c \in Callers : CreatedOk(c) =>
    \A impl \in Impls :
      LET r == generateTokenPayload(impl, creates[c].userId)
      IN /\ r.kind = "ok"
         /\ r.value.organizationId = creates[c].organizationId
         /\ r.value.features = creates[c].dto.features
         /\ validate(verify(sign(r.value))).kind = "ok"
         /\ validate(verify(sign(r.value))).value.organizationId = creates[c].organizationId

\* C19: under every interleaving of create calls no two users share an
\* email or a userName and no two organizations share an email; of the
\* calls with the same email or userName at most one succeeds and the
\* others (their features being well-formed) fail with Conflict; the rows
\* in the tables are exactly those of the calls that succeeded.
C19_ConcurrentCreatesKeepUniqueness ==
  /\ \A u, v \in DOMAIN user : u # v /\ Live(u) /\ Live(v)
        => user[u].email # user[v].email /\ user[u].userName # user[v].userName
  /\ \A o, q \in DOMAIN organization : o # q /\ organization[o].exists /\ organization[q].exists
        => organization[o].email # organization[q].email
  /\ \A c, d \in Callers : c # d /\ CreatedOk(c) /\ CreatedOk(d)
        => /\ creates[c].dto.email # creates[d].dto.email
           /\ creates[c].dto.userName # creates[d].dto.userName
  /\ \A c \in Callers : CreateRejected(c) /\ creates[c].dto.features # {}
        => creates[c].out.kind = "ConflictException"
  /\ Cardinality({ u \in DOMAIN user : user[u].status # "never" })
        = Cardinality({ c \in Callers : CreatedOk(c) })
  /\ Cardinality({ o \in DOMAIN organization : organization[o].exists })
        = Cardinality({ c \in Callers : CreatedOk(c) })
  /\ Cardinality({ k \in DOMAIN office : office[k].status # "never" })
        = Cardinality({ c \in Callers : CreatedOk(c) /\ creates[c].dto.office = 1 })

DeleteOfficeCalled == res.op = "deleteOffice"

\* C20: deleteOffice(officeId, organizationId) removes the office exactly
\* when it exists and belongs to organizationId; otherwise it throws
\* NotFound and leaves the office table as it was; so an office only ever
\* disappears through a deleteOffice call made with its own organization's
\* id.
C20_DeleteOfficeTenantIsolation ==
  /\ [] ( DeleteOfficeCalled
          => IF res.owner # Undefined /\ res.owner = res.organizationId
             THEN res.out = Ok(res.officeId) /\ office[res.officeId].status = "deleted"
             ELSE res.out = Throw("NotFoundException", "Office with this ID doesn't exist") )
  /\ [][ \A k \in OfficeIds :
           office[k].status = "live" /\ office'[k].status # "live"
           => /\ res'.op = "deleteOffice" /\ res'.out.kind = "ok"
              /\ res'.officeId = k
              /\ res'.organizationId = office[k].organizationId ]_vars
  /\ [][ res'.op = "deleteOffice" /\ res'.out.kind # "ok" => office' = office ]_vars

C20_Witness ==
  /\ DeleteOfficeCalled
  /\ office[res.officeId].status = "live"
  /\ res.organizationId # Undefined
  /\ organization[res.organizationId].exists
  /\ office[res.officeId].organizationId # res.organizationId
  /\ res.out.kind = "NotFoundException"

\* C21: in the client's user store, after any sequence of loginStart,
\* loginSuccess, loginFailure, signOut, setToken and clearToken, whenever
\* error is truthy both token and currentUser are null.
C21_ErrorImpliesNoCredential ==
  Truthy(state.error) => state.token = JsNull /\ state.currentUser = JsNull

====
